---- MODULE Spec2Model ----
(***************************************************************************)
(* Model of the portfolio site's tile pipeline: data merge, tile           *)
(* rendering, the filter / search / sort engine, the masonry layout pass   *)
(* and the browser timers that connect them.                               *)
(*                                                                         *)
(* Strings are sequences of one-character strings, so that toLowerCase,    *)
(* join, includes and localeCompare are computed character by character.   *)
(* An optional field is a sequence of length 0 (absent) or 1 (present).    *)
(* Heights are measured in half pixels, so that Math.ceil has work to do.  *)
(***************************************************************************)
EXTENDS Integers, Sequences, FiniteSets, TLC

VARIABLES
  pc,             \* "loading" before init() has run, "ready" after it,
                  \* "failed" when init() ended in its catch block
  githubProjects, \* githubProjects.projects, as loaded
  manualTiles,    \* manualTiles.tiles, as loaded
  sortDefault,    \* filter-groups.yml: default of the `sort` filter
  gapValue,       \* parseInt of the --grid-gap custom property (<<>> is NaN)
  allTiles,       \* filter-system.js: allTiles (the merged tile records)
  grid,           \* the .tile elements of .grid-container, in DOM order
  twinGrid,       \* DOM order of the reference run in which every absent
                  \* priority of the input was written as priority: 0
  activeFilters,  \* filter-system.js: activeFilters
  tagOptions,     \* values of the rendered .filter-pill buttons, in order
  pills,          \* values of the .filter-pill buttons carrying class active
  inputValue,     \* .search-input value
  timers,         \* the browser's pending setTimeout callbacks, oldest first
  debounceTimer,  \* handle of the pending timer the search listener can still
                  \* clear; 0 when it holds none, or one that has fired (to
                  \* clear such a handle does nothing)
  imagesPending,  \* waitForImagesToLoad's promise has not resolved yet
  resumeTiles,    \* resumeTiles.tiles, as data/resume-tiles.yml holds them
  loads,          \* for each data file, whether loadData resolves or rejects
  showSocial,     \* populateSocialLinks gets as far as its loadData call
  errorShown,     \* #error-message is displayed
  uncaughtError,  \* a listener of the filter controls has thrown
  images,         \* the <img> elements of the container: pending, complete
                  \* when first looked at, loaded or failed
  currentTheme,   \* theme.js: currentTheme
  storedTheme,    \* localStorage[THEME_KEY]: <<>> when the key is not set
  prefersDark,    \* matchMedia('(prefers-color-scheme: dark)').matches
  rootTheme,      \* document.documentElement.dataset.theme, "" when not set
  themeLog,       \* the values currentTheme has had since the page loaded
  resizeTimeout,  \* setupResponsiveRerender: resizeTimeout, the handle of the
                  \* pending timer the observer can still clear; 0 when it
                  \* holds none, or one that has fired
  layoutDue       \* applyFilters has run to its end and no callback of a
                  \* layout timer of applyFilters has run since

vars == <<pc, githubProjects, manualTiles, sortDefault, gapValue, allTiles,
          grid, twinGrid, activeFilters, tagOptions, pills, inputValue,
          timers, debounceTimer, imagesPending, resumeTiles, loads,
          showSocial, errorShown, uncaughtError, images, currentTheme,
          storedTheme, prefersDark, rootTheme, themeLog, resizeTimeout, layoutDue>>

----------------------------------------------------------------------------
(* Bounds of the model *)

\* tiles on a page
MaxTiles == 2
\* layout timers of applyFilters pending at a time
MaxLayoutTimers == 1
\* search timers pending at a time
MaxSearchTimers == 2
\* tiles on a page when the --grid-gap value varies
MaxLayoutTiles == 1
\* tiles on a page when the search timers are followed
MaxSearchTiles == 1
\* tiles on a page when the outcomes of the fetches vary
MaxLoadTiles == 2
\* tiles on a page when records with malformed fields are among them
MaxMalformedTiles == 2
\* tiles on a page when the images of the tiles are followed
MaxImageTiles == 2
\* clicks on the theme toggle between two page loads
MaxClicks == 3
\* tiles on a page when the theme is followed
MaxThemeTiles == 1
\* tiles on a page when the layout passes after applyFilters are followed
MaxFilterTiles == 2
\* tiles on a page when the tag options and their counts are followed
MaxTagTiles == 2
\* tiles on a page when the sort select offers keys sortTiles does not know
MaxSortTiles == 2
\* tiles on a page when the pills and the tag list are followed
MaxPillTiles == 2
\* tiles on a page when the default of the sort filter varies
MaxDefaultTiles == 2
\* resize timers pending at a time
MaxResizeTimers == 2
\* tiles on a page when the resize timers are followed
MaxResizeTiles == 2

----------------------------------------------------------------------------
(* Strings *)

UpperChars == <<"A","B","C","D","E","F","G","H","I","J","K","L","M",
                "N","O","P","Q","R","S","T","U","V","W","X","Y","Z">>
LowerChars == <<"a","b","c","d","e","f","g","h","i","j","k","l","m",
                "n","o","p","q","r","s","t","u","v","w","x","y","z">>

IsUpper(c) == c \in {UpperChars[i] : i \in 1..Len(UpperChars)}

\* the lower-case letter of each upper-case letter
LowerOf ==
  [c \in {UpperChars[i] : i \in 1..Len(UpperChars)} |->
     LowerChars[CHOOSE i \in 1..Len(UpperChars) : UpperChars[i] = c]]

LowerChar(c) == IF c \in DOMAIN LowerOf THEN LowerOf[c] ELSE c

\* String.prototype.toLowerCase
ToLowerCase(s) == [i \in 1..Len(s) |-> LowerChar(s[i])]

\* String.prototype.includes
Includes(text, sub) ==
  \E k \in 0..(Len(text) - Len(sub)) :
     \A i \in 1..Len(sub) : text[k + i] = sub[i]

RECURSIVE Join(_, _)
\* Array.prototype.join
Join(parts, sep) ==
  IF Len(parts) = 0 THEN <<>>
  ELSE IF Len(parts) = 1 THEN parts[1]
  ELSE parts[1] \o sep \o Join(Tail(parts), sep)

\* Primary collation weight of a character: space, punctuation, digits, letters
CollationOrder == <<" ", "-", ":", "0","1","2","3","4","5","6","7","8","9">>
                    \o LowerChars

WeightOf ==
  [c \in {CollationOrder[i] : i \in 1..Len(CollationOrder)} |->
     CHOOSE i \in 1..Len(CollationOrder) : CollationOrder[i] = c]

CharWeight(c) == WeightOf[LowerChar(c)]

\* first difference of two strings under a per-character weight W
LexCompare(a, b, W(_)) ==
  LET m == IF Len(a) < Len(b) THEN Len(a) ELSE Len(b)
      diff == {i \in 1..m : W(a[i]) # W(b[i])}
  IN IF diff # {}
       THEN LET i == CHOOSE x \in diff : \A y \in diff : x <= y
            IN IF W(a[i]) < W(b[i]) THEN -1 ELSE 1
       ELSE IF Len(a) < Len(b) THEN -1
       ELSE IF Len(a) > Len(b) THEN 1
       ELSE 0

CaseWeight(c) == IF IsUpper(c) THEN 1 ELSE 0

\* String.prototype.localeCompare: letters first (case ignored), then, between
\* strings with the same letters, lower case before upper case
LocaleCompare(a, b) ==
  LET primary == LexCompare(a, b, CharWeight)
  IN IF primary # 0 THEN primary ELSE LexCompare(a, b, CaseWeight)

Digits == <<"0","1","2","3","4","5","6","7","8","9">>

RECURSIVE NatToString(_)
NatToString(n) ==
  IF n < 10 THEN <<Digits[n + 1]>>
  ELSE NatToString(n \div 10) \o <<Digits[(n % 10) + 1]>>

\* String(n) of an integer
NumToString(n) == IF n < 0 THEN <<"-">> \o NatToString(-n) ELSE NatToString(n)

\* the value of each decimal digit
DigitValueOf ==
  [c \in {Digits[i] : i \in 1..Len(Digits)} |->
     (CHOOSE i \in 1..Len(Digits) : Digits[i] = c) - 1]

IsDigit(c) == c \in DOMAIN DigitValueOf
DigitValue(c) == DigitValueOf[c]

RECURSIVE ParseDigits(_, _, _)
ParseDigits(s, i, acc) ==
  IF i > Len(s) \/ ~IsDigit(s[i]) THEN acc
  ELSE ParseDigits(s, i + 1, acc * 10 + DigitValue(s[i]))

\* parseInt(s): <<>> is NaN, <<n>> the integer read from the leading digits
ParseInt(s) ==
  LET neg == Len(s) > 0 /\ s[1] = "-"
      body == IF neg THEN Tail(s) ELSE s
  IN IF Len(body) = 0 \/ ~IsDigit(body[1]) THEN <<>>
     ELSE <<(IF neg THEN -1 ELSE 1) * ParseDigits(body, 1, 0)>>

\* a priority that is text, not a number (numbers are <<n>>, text is longer)
IsText(x) == Len(x) >= 2

\* x || d, for an optional number x (absent, NaN and 0 are falsy)
OrElse(x, d) == IF Len(x) = 0 \/ x[1] = 0 THEN d ELSE x[1]

----------------------------------------------------------------------------
(* Sequences *)

Range(s) == {s[i] : i \in 1..Len(s)}

\* Array.prototype.sort with comparator Cmp: the sort is stable, so element i
\* lands after every element that compares smaller and every earlier element
\* that compares equal
SortBy(s, Cmp(_, _)) ==
  LET n == Len(s)
      rank == [i \in 1..n |->
                 1 + Cardinality({j \in 1..n :
                        \/ Cmp(s[j], s[i]) < 0
                        \/ Cmp(s[j], s[i]) = 0 /\ j < i})]
  IN [k \in 1..n |-> s[CHOOSE i \in 1..n : rank[i] = k]]

\* insertion-ordered Set built from an array: first occurrences, in order
Dedup(s) ==
  LET firsts == SelectSeq([i \in 1..Len(s) |-> i],
                          LAMBDA i : \A j \in 1..(i - 1) : s[j] # s[i])
  IN [k \in 1..Len(firsts) |-> s[firsts[k]]]

RECURSIVE Flatten(_)
\* concatenation of a sequence of sequences
Flatten(ss) == IF Len(ss) = 0 THEN <<>> ELSE ss[1] \o Flatten(Tail(ss))

----------------------------------------------------------------------------
(* Input data: the tile records the YAML files can hold *)

go == <<"g","o">>
Go == <<"G","o">>
rs == <<"r","s">>

\* records of data/github-projects.yml
GithubPool == {
  [id |-> 1, type |-> "project", title |-> <<"A","l">>, description |-> <<>>,
   priority |-> <<5>>, stars |-> 1, tags |-> <<go>>, topics |-> <<>>,
   language |-> <<>>, widget_id |-> <<>>, height |-> 3, image |-> FALSE],
  [id |-> 2, type |-> "project", title |-> <<"B","e">>,
   description |-> <<"a","l">>,
   priority |-> <<0>>, stars |-> 3, tags |-> <<rs>>, topics |-> <<>>,
   language |-> Go, widget_id |-> <<>>, height |-> 0, image |-> FALSE] }

\* records of data/manual-tiles.yml
ManualPool == {
  [id |-> 3, type |-> "link", title |-> <<"A","a">>, description |-> <<>>,
   priority |-> <<-5>>, stars |-> 0, tags |-> <<>>, topics |-> <<rs>>,
   language |-> <<>>, widget_id |-> <<>>, height |-> 4, image |-> FALSE],
  [id |-> 4, type |-> "content", title |-> <<"C","e">>, description |-> <<>>,
   priority |-> <<>>, stars |-> 0, tags |-> <<Go>>, topics |-> <<>>,
   language |-> <<>>, widget_id |-> <<>>, height |-> 2, image |-> FALSE],
  [id |-> 5, type |-> "widget", title |-> <<"W","a">>, description |-> <<>>,
   priority |-> <<0>>, stars |-> 0, tags |-> <<>>, topics |-> <<go>>,
   language |-> <<>>, widget_id |-> <<"w">>, height |-> 1, image |-> FALSE],
  [id |-> 6, type |-> "profile", title |-> <<"P","a","l">>,
   description |-> <<>>,
   priority |-> <<10>>, stars |-> 0, tags |-> <<>>, topics |-> <<>>,
   language |-> <<>>, widget_id |-> <<>>, height |-> 5, image |-> FALSE] }

\* records of data/resume-tiles.yml
ResumePool == {
  [id |-> 7, type |-> "link", title |-> <<"C","v">>, description |-> <<>>,
   priority |-> <<3>>, stars |-> 0, tags |-> <<>>, topics |-> <<>>,
   language |-> <<>>, widget_id |-> <<>>, height |-> 2, image |-> FALSE] }

\* a record of data/manual-tiles.yml whose type has no renderer
UnknownTypePool == {
  [id |-> 8, type |-> "gallery", title |-> <<"G","a">>, description |-> <<>>,
   priority |-> <<7>>, stars |-> 0, tags |-> <<go>>, topics |-> <<>>,
   language |-> <<>>, widget_id |-> <<>>, height |-> 2, image |-> FALSE] }

\* records of data/manual-tiles.yml with a malformed field: no title, or a
\* priority that is text
MalformedPool == {
  [id |-> 9, type |-> "profile", title |-> <<"undefined">>,
   description |-> <<>>,
   priority |-> <<10>>, stars |-> 0, tags |-> <<>>, topics |-> <<>>,
   language |-> <<>>, widget_id |-> <<>>, height |-> 5, image |-> FALSE],
  [id |-> 10, type |-> "link", title |-> <<"undefined">>,
   description |-> <<>>,
   priority |-> <<2>>, stars |-> 0, tags |-> <<>>, topics |-> <<>>,
   language |-> <<>>, widget_id |-> <<>>, height |-> 2, image |-> FALSE],
  [id |-> 11, type |-> "link", title |-> <<"D","a">>, description |-> <<>>,
   priority |-> <<"h","i">>, stars |-> 0, tags |-> <<>>, topics |-> <<>>,
   language |-> <<>>, widget_id |-> <<>>, height |-> 2, image |-> FALSE] }

\* records of data/manual-tiles.yml with and without an image
ImagePool == {
  [id |-> 12, type |-> "link", title |-> <<"I","m">>, description |-> <<>>,
   priority |-> <<4>>, stars |-> 0, tags |-> <<>>, topics |-> <<>>,
   language |-> <<>>, widget_id |-> <<>>, height |-> 6, image |-> TRUE],
  [id |-> 13, type |-> "content", title |-> <<"J","o">>, description |-> <<>>,
   priority |-> <<1>>, stars |-> 0, tags |-> <<>>, topics |-> <<>>,
   language |-> <<>>, widget_id |-> <<>>, height |-> 7, image |-> TRUE],
  [id |-> 14, type |-> "link", title |-> <<"K","i">>, description |-> <<>>,
   priority |-> <<6>>, stars |-> 0, tags |-> <<>>, topics |-> <<>>,
   language |-> <<>>, widget_id |-> <<>>, height |-> 1, image |-> FALSE] }

tsx == <<"t","s">>

\* records of data/manual-tiles.yml whose tags, topics and language repeat a
\* value, also in another letter case
TagPool == {
  [id |-> 15, type |-> "project", title |-> <<"T","a">>, description |-> <<>>,
   priority |-> <<4>>, stars |-> 0, tags |-> <<tsx, <<"R","s">>>>,
   topics |-> <<rs>>, language |-> <<>>, widget_id |-> <<>>, height |-> 2,
   image |-> FALSE],
  [id |-> 16, type |-> "link", title |-> <<"T","b">>, description |-> <<>>,
   priority |-> <<2>>, stars |-> 0, tags |-> <<rs>>, topics |-> <<>>,
   language |-> Go, widget_id |-> <<>>, height |-> 3, image |-> FALSE],
  [id |-> 17, type |-> "content", title |-> <<"T","c">>, description |-> <<>>,
   priority |-> <<1>>, stars |-> 0, tags |-> <<<<"T","s">>, tsx>>,
   topics |-> <<tsx>>, language |-> <<"T","S">>, widget_id |-> <<>>,
   height |-> 1, image |-> FALSE] }

\* the lists of at most n distinct records of a pool, in the order of the ids
ListsOf(pool, n) ==
  {s \in UNION {[1..k -> pool] : k \in 0..n} :
     \A i, j \in 1..Len(s) : i < j => s[i].id < s[j].id}

\* filter-groups.yml: the declared options of the `tags` filter
PriorityTagOptions == <<Go>>

\* filter-groups.yml: the options of the `sort` filter
SortKeys == {"priority", "stars", "recent", "alphabetical"}

\* option values of a `sort` filter that sortTiles has no case for
UnrecognizedKeys == {"newest", ""}

\* filter-groups.yml: the defaults of the `sort` filter the model draws from
SortDefaults == {"priority", "alphabetical"}

\* texts typed into the search box
InputTexts == {<<>>, <<"A","l">>}

\* parsed --grid-gap values: NaN (not set), 0, a positive and a negative gap
GapValues == {<<>>, <<0>>, <<2>>, <<-7>>}

----------------------------------------------------------------------------
(* data-loader.js *)

\* mergeData's comparator: (b.priority || 0) - (a.priority || 0); with a
\* priority that is text the difference is NaN, which sort reads as 0
MergeCompare(a, b) ==
  IF IsText(a.priority) \/ IsText(b.priority) THEN 0
  ELSE OrElse(b.priority, 0) - OrElse(a.priority, 0)

\* mergeData(githubProjects, manualTiles): any further argument is ignored
MergeData(github, manual) ==
  LET combined ==
        [i \in 1..Len(github) |->
           [tile |-> github[i], source |-> "github"]] \o
        [i \in 1..Len(manual) |->
           [tile |-> manual[i], source |-> "manual"]]
      sorted == SortBy(combined, LAMBDA a, b : MergeCompare(a.tile, b.tile))
  IN [i \in 1..Len(sorted) |-> sorted[i].tile]

\* the call of main.js: mergeData(githubProjects.projects, manualTiles.tiles,
\* resumeTiles.tiles); mergeData declares two parameters
InitMerge(github, manual, resume) == MergeData(github, manual)

\* the data files init() and populateSocialLinks() load
Sources == {"site-config", "github-projects", "manual-tiles", "resume-tiles",
            "filter-groups", "social-media"}

\* the files whose loadData promise init() passes to Promise.all as it is
RequiredSources == {"site-config", "github-projects", "manual-tiles",
                    "filter-groups"}

\* every loadData call resolves
AllLoaded == [s \in Sources |-> "ok"]

\* Promise.all([...]) of init() rejects: loadData rethrows what fetch threw
JoinRejects(l) == \E s \in RequiredSources : l[s] = "failed"

\* resumeTiles.tiles after loadData(...).catch(() => ({ tiles: [] }))
ResumeResult(l, tiles) == IF l["resume-tiles"] = "failed" THEN <<>> ELSE tiles

\* await populateSocialLinks(siteConfig) rejects: its loadData call is not
\* guarded
SocialRejects(l, show) == show /\ l["social-media"] = "failed"

----------------------------------------------------------------------------
(* tile-renderer.js *)

\* the keys of the TileRenderers registry
TileRenderers == {"project", "link", "content", "widget", "profile"}

WidgetPrefix == <<"W","i","d","g","e","t",":"," ">>

\* the title of a record that has none: undefined, which no string equals
NoTitle == <<"undefined">>

\* `${undefined}` in a template literal
UndefinedText == <<"u","n","d","e","f","i","n","e","d">>

\* textContent of the element's .tile-title node, '' when it has none
\* (renderProfileTile writes its title into .profile-tile-title)
TileTitleText(data) ==
  IF data.type \in {"project", "link", "content", "widget"}
    THEN (IF data.title = NoTitle THEN UndefinedText ELSE data.title)
    ELSE <<>>

\* the renderer of the record's type throws: renderProfileTile calls
\* data.title.replace(...)
RendererRaises(data) == data.type = "profile" /\ data.title = NoTitle

\* the renderer emits an <img>: data.image is set and the type has an image
TileHasImage(data) ==
  data.image /\ data.type \in {"project", "link", "content", "profile"}

\* textContent of the element's .tile-description node, '' when it has none
TileDescriptionText(data) ==
  CASE data.type \in {"project", "link"} -> data.description
    [] data.type = "widget" -> WidgetPrefix \o data.widget_id
    [] OTHER -> <<>>

\* dataset.priority with an absent priority written as -1 instead of 0
DatasetPriorityAbsentLast(data) ==
  NumToString(IF data.priority = <<>> THEN -1 ELSE data.priority[1])

\* dataset.priority = tileData.priority || 0
DatasetPriority(data) ==
  IF IsText(data.priority) THEN data.priority
  ELSE NumToString(OrElse(data.priority, 0))

\* renderer(tileData) followed by applyCommonTileAttributes: the element, as
\* far as the filter system and the layout pass read it.  dataset.tags and
\* dataset.topics hold JSON of string arrays, kept here as the arrays;
\* dataset.stars is written nowhere.
ApplyCommonTileAttributes(data) ==
  [id          |-> data.id,
   type        |-> data.type,
   titleText   |-> TileTitleText(data),
   descText    |-> TileDescriptionText(data),
   dsPriority  |-> DatasetPriority(data),
   dsTags      |-> data.tags,
   dsTopics    |-> IF data.topics # <<>> THEN <<data.topics>> ELSE <<>>,
   dsLanguage  |-> ToLowerCase(data.language),
   dsStars     |-> <<>>,
   filtered    |-> FALSE,
   display     |-> "",
   gridRowEnd  |-> <<>>,
   height      |-> data.height,
   hasImage    |-> TileHasImage(data)]

\* renderTile: <<>> (null) for a type without renderer
RenderTile(data) ==
  IF data.type \notin TileRenderers THEN <<>>
  ELSE <<ApplyCommonTileAttributes(data)>>

\* renderAllTiles giving up at the first record without renderer
RenderAllTilesAborting(tiles) ==
  LET unknown == {i \in 1..Len(tiles) : RenderTile(tiles[i]) = <<>>}
      stop == IF unknown = {} THEN Len(tiles) + 1
              ELSE CHOOSE i \in unknown : \A j \in unknown : i <= j
  IN Flatten([i \in 1..(stop - 1) |-> RenderTile(tiles[i])])

\* renderAllTiles: the children appended to the container, in list order
RenderAllTiles(tiles) ==
  Flatten([i \in 1..Len(tiles) |-> RenderTile(tiles[i])])

\* the forEach of renderAllTiles throws at one of the tiles
RenderAllTilesRaises(tiles) ==
  \E k \in 1..Len(tiles) :
     tiles[k].type \in TileRenderers /\ RendererRaises(tiles[k])

\* the children appended before the forEach of renderAllTiles throws
RenderedBeforeRaise(tiles) ==
  LET k == CHOOSE n \in 1..Len(tiles) :
             /\ tiles[n].type \in TileRenderers /\ RendererRaises(tiles[n])
             /\ \A j \in 1..(n - 1) :
                  ~(tiles[j].type \in TileRenderers /\ RendererRaises(tiles[j]))
  IN RenderAllTiles(SubSeq(tiles, 1, k - 1))

\* rowHeight of calculateMasonryLayout
RowHeight == 1

\* the gap calculateMasonryLayout falls back to
DefaultGap == 20

\* Math.ceil(a / b) for b > 0
CeilDiv(a, b) == -((-a) \div b)

\* rowSpan of a displayed tile: Math.ceil((height + gap) / rowHeight), with
\* the height given in half pixels
RowSpan(height, gap) == CeilDiv(height + 2 * gap, 2 * RowHeight)

\* calculateMasonryLayout without the branch for hidden tiles
CalculateMasonryLayoutNoSkip(g, gapParsed) ==
  [i \in 1..Len(g) |->
     [g[i] EXCEPT !.gridRowEnd =
        <<RowSpan(g[i].height, OrElse(gapParsed, DefaultGap))>>]]

\* calculateMasonryLayout(container)
CalculateMasonryLayout(g, gapParsed) ==
  LET gap == OrElse(gapParsed, DefaultGap)
  IN [i \in 1..Len(g) |->
        IF g[i].display = "none" \/ g[i].filtered
          THEN [g[i] EXCEPT !.gridRowEnd = <<0>>]
          ELSE [g[i] EXCEPT !.gridRowEnd = <<RowSpan(g[i].height, gap)>>]]

----------------------------------------------------------------------------
(* filter-system.js *)

\* the tags, topics and language of a tile record, lower-cased: what
\* calculateTagFrequency and getAllUniqueTags collect from one tile
TileTagValues(tile) ==
  [i \in 1..Len(tile.tags) |-> ToLowerCase(tile.tags[i])] \o
  [i \in 1..Len(tile.topics) |-> ToLowerCase(tile.topics[i])] \o
  (IF tile.language # <<>> THEN <<ToLowerCase(tile.language)>> ELSE <<>>)

\* a tile's tags counted as often as they are written
UniqueTagsRepeated(tile) == TileTagValues(tile)

\* calculateTagFrequency: uniqueTags, the Set made for one tile
UniqueTags(tile) == Dedup(TileTagValues(tile))

\* tagCounts.set(tag, (tagCounts.get(tag) || 0) + 1)
BumpCount(tagCounts, tag) ==
  [t \in DOMAIN tagCounts \cup {tag} |->
     (IF t \in DOMAIN tagCounts THEN tagCounts[t] ELSE 0)
       + (IF t = tag THEN 1 ELSE 0)]

RECURSIVE CountTags(_, _)
\* the Map after the tags of the list are counted into it, one after another
CountTags(tags, tagCounts) ==
  IF Len(tags) = 0 THEN tagCounts
  ELSE CountTags(Tail(tags), BumpCount(tagCounts, Head(tags)))

\* calculateTagFrequency(): the Map tag -> count
CalculateTagFrequency(tiles) ==
  CountTags(Flatten([i \in 1..Len(tiles) |-> UniqueTags(tiles[i])]), <<>>)

\* calculateTagFrequency().get(tag) || 0
TagFrequency(tiles, tag) ==
  LET tagCounts == CalculateTagFrequency(tiles)
  IN IF tag \in DOMAIN tagCounts THEN tagCounts[tag] ELSE 0

\* a getAllUniqueTags that adds the values as they are written
GetAllUniqueTagsAsWritten(tiles) ==
  Dedup(Flatten([i \in 1..Len(tiles) |->
                   tiles[i].tags \o tiles[i].topics \o
                   (IF tiles[i].language # <<>> THEN <<tiles[i].language>>
                                                ELSE <<>>)]))

\* getAllUniqueTags(), in the Set's insertion order
GetAllUniqueTags(tiles) ==
  Dedup(Flatten([i \in 1..Len(tiles) |-> TileTagValues(tiles[i])]))

\* renderMultiSelectFilter for the tags filter: the values of the pills
TagOptions(tiles) ==
  IF Len(tiles) = 0 THEN PriorityTagOptions
  ELSE
    LET priorityTagValues ==
          {ToLowerCase(PriorityTagOptions[i]) :
             i \in 1..Len(PriorityTagOptions)}
        discovered == SelectSeq(GetAllUniqueTags(tiles),
                                LAMBDA tag : tag \notin priorityTagValues)
        sorted == SortBy(discovered,
                         LAMBDA a, b : TagFrequency(tiles, ToLowerCase(b))
                                       - TagFrequency(tiles, ToLowerCase(a)))
    IN PriorityTagOptions \o sorted

\* initFilterSystem: activeFilters after the default sort is read
InitialFilters(default) ==
  [tags |-> <<>>, search |-> <<>>, sort |-> default]

\* parseInt(tileEl.dataset.stars || '0')
ElementStars(el) == ParseInt(IF el.dsStars = <<>> THEN <<"0">> ELSE el.dsStars[1])

\* getTileDataFromElement(tileEl)
GetTileDataFromElement(el) ==
  [id          |-> el.id,
   type        |-> el.type,
   title       |-> el.titleText,
   description |-> el.descText,
   language    |-> el.dsLanguage,
   stars       |-> ElementStars(el),
   tags        |-> el.dsTags,
   topics      |-> IF el.dsTopics = <<>> THEN <<>> ELSE el.dsTopics[1],
   priority    |-> ParseInt(el.dsPriority)]

\* the tag stage comparing the selected values as written, not lower-cased
TagStageCaseSensitive(tileData, filters) ==
  Len(filters.tags) > 0 =>
    LET merged == tileData.tags \o tileData.topics \o <<tileData.language>>
        tileTags == {ToLowerCase(merged[i]) :
                       i \in {j \in 1..Len(merged) : merged[j] # <<>>}}
    IN \E k \in 1..Len(filters.tags) : filters.tags[k] \in tileTags

\* the tag stage of evaluateFilters
TagStage(tileData, filters) ==
  Len(filters.tags) > 0 =>
    LET merged == tileData.tags \o tileData.topics \o <<tileData.language>>
        tileTags == {ToLowerCase(merged[i]) :
                       i \in {j \in 1..Len(merged) : merged[j] # <<>>}}
    IN \E k \in 1..Len(filters.tags) :
          ToLowerCase(filters.tags[k]) \in tileTags

\* the tag stage calling toLowerCase on every entry, undefined included
TagStageRaisesUnfiltered(tileData, filters) ==
  /\ Len(filters.tags) > 0
  /\ LET merged == tileData.tags \o tileData.topics \o <<tileData.language>>
     IN \E i \in 1..Len(merged) : merged[i] = <<>>

\* the tag stage of evaluateFilters throws: t.toLowerCase() is called on an
\* entry that is undefined (<<>>; the corpus holds no empty string) and that
\* filter(Boolean) has left in the list
TagStageRaises(tileData, filters) ==
  /\ Len(filters.tags) > 0
  /\ LET merged == tileData.tags \o tileData.topics \o <<tileData.language>>
         kept == SelectSeq(merged, LAMBDA t : t # <<>>)
     IN \E i \in 1..Len(kept) : kept[i] = <<>>

\* the search stage of evaluateFilters
SearchStage(tileData, filters) ==
  filters.search # <<>> =>
    LET searchableText ==
          ToLowerCase(Join(<<tileData.title, tileData.description>>
                             \o tileData.tags \o tileData.topics, <<" ">>))
    IN Includes(searchableText, filters.search)

\* evaluateFilters(tileData)
EvaluateFilters(tileData, filters) ==
  TagStage(tileData, filters) /\ SearchStage(tileData, filters)

\* b - a of two parseInt results; NaN makes the comparator return NaN, which
\* Array.prototype.sort reads as 0
NumDiff(b, a) == IF a = <<>> \/ b = <<>> THEN 0 ELSE b[1] - a[1]

\* the comparator of sortTiles with the priority operands swapped
SortCompareAscending(dataA, dataB, sortBy) ==
  CASE sortBy = "stars" -> NumDiff(dataB.stars, dataA.stars)
    [] sortBy = "recent" -> NumDiff(dataA.priority, dataB.priority)
    [] sortBy = "alphabetical" -> LocaleCompare(dataA.title, dataB.title)
    [] OTHER -> NumDiff(dataA.priority, dataB.priority)

\* a comparator whose default branch returns 0
SortCompareNoDefault(dataA, dataB, sortBy) ==
  CASE sortBy = "stars" -> NumDiff(dataB.stars, dataA.stars)
    [] sortBy = "recent" -> NumDiff(dataB.priority, dataA.priority)
    [] sortBy = "alphabetical" -> LocaleCompare(dataA.title, dataB.title)
    [] sortBy = "priority" -> NumDiff(dataB.priority, dataA.priority)
    [] OTHER -> 0

\* the comparator of sortTiles, on the data read from the two elements
SortCompare(dataA, dataB, sortBy) ==
  CASE sortBy = "stars" -> NumDiff(dataB.stars, dataA.stars)
    [] sortBy = "recent" -> NumDiff(dataB.priority, dataA.priority)
    [] sortBy = "alphabetical" -> LocaleCompare(dataA.title, dataB.title)
    [] OTHER -> NumDiff(dataB.priority, dataA.priority)

\* sortTiles on a sort that puts the later of two equal tiles first
SortTilesUnstable(g, sortBy) ==
  LET n == Len(g)
      tileData == [i \in 1..n |-> GetTileDataFromElement(g[i])]
      order == SortBy([i \in 1..n |-> n + 1 - i],
                      LAMBDA a, b : SortCompare(tileData[a], tileData[b], sortBy))
  IN [k \in 1..n |-> g[order[k]]]

\* sortTiles(sortBy): the tiles re-appended in sorted order
SortTiles(g, sortBy) ==
  LET tileData == [i \in 1..Len(g) |-> GetTileDataFromElement(g[i])]
      order == SortBy([i \in 1..Len(g) |-> i],
                      LAMBDA a, b : SortCompare(tileData[a], tileData[b], sortBy))
  IN [k \in 1..Len(g) |-> g[order[k]]]

\* a visibility loop that removes the tiles that do not match
UpdateVisibilityRemoving(g, filters) ==
  SelectSeq(g, LAMBDA el :
                 EvaluateFilters(GetTileDataFromElement(el), filters))

\* the visibility loop of applyFilters
UpdateVisibility(g, filters) ==
  [i \in 1..Len(g) |->
     IF EvaluateFilters(GetTileDataFromElement(g[i]), filters)
       THEN [g[i] EXCEPT !.filtered = FALSE, !.display = ""]
       ELSE [g[i] EXCEPT !.filtered = TRUE, !.display = "none"]]

\* the visibility loop of applyFilters throws at one of the tiles
ApplyFiltersRaises(g, filters) ==
  \E i \in 1..Len(g) : TagStageRaises(GetTileDataFromElement(g[i]), filters)

\* the grid the visibility loop leaves when it throws: the tiles before the
\* one it throws at have their new visibility
VisibilityBeforeRaise(g, filters) ==
  LET k == CHOOSE n \in 1..Len(g) :
             /\ TagStageRaises(GetTileDataFromElement(g[n]), filters)
             /\ \A j \in 1..(n - 1) :
                  ~TagStageRaises(GetTileDataFromElement(g[j]), filters)
      done == UpdateVisibility(g, filters)
  IN [i \in 1..Len(g) |-> IF i < k THEN done[i] ELSE g[i]]

\* if (activeFilters.sort) sortTiles(activeFilters.sort): the empty string is
\* falsy
SortIfNeeded(g, sortBy) == IF sortBy = "" THEN g ELSE SortTiles(g, sortBy)

\* the grid after applyFilters: visibility, then sortTiles(activeFilters.sort)
\* when a sort key is set
ApplyFiltersGrid(g, filters) ==
  SortIfNeeded(UpdateVisibility(g, filters), filters.sort)

----------------------------------------------------------------------------
(* theme.js *)

\* the values of THEMES
THEMES == {"light", "dark", "auto"}

\* an initTheme that does not read the saved theme
SavedOrAutoForgetting(saved) == "auto"

\* savedTheme || THEMES.AUTO
SavedOrAuto(saved) == IF saved = <<>> THEN "auto" ELSE saved[1]

\* applyTheme(theme): the value written to root.dataset.theme
ApplyTheme(theme, dark) ==
  IF theme = "auto" THEN (IF dark THEN "dark" ELSE "light") ELSE theme

\* a click handler that steps the cycle backwards
ToggledThemeBackwards(theme) ==
  IF theme = "light" THEN "auto"
  ELSE IF theme = "dark" THEN "light"
  ELSE "dark"

\* the click handler of #theme-toggle: the new currentTheme
ToggledTheme(theme) ==
  IF theme = "light" THEN "dark"
  ELSE IF theme = "dark" THEN "auto"
  ELSE "light"

----------------------------------------------------------------------------
(* Browser timers *)

\* config.DEBOUNCE_DELAY
DEBOUNCE_DELAY == 300

\* the delay of applyFilters' layout timer
LayoutDelay == 50

\* the delay of setupResponsiveRerender's timer
ResizeDelay == 100

\* the handle setTimeout returns: one that no pending timer carries
FreshHandle(ts) ==
  CHOOSE n \in 1..(Len(ts) + 1) :
    /\ \A i \in 1..Len(ts) : ts[i].id # n
    /\ \A m \in 1..(n - 1) : \E i \in 1..Len(ts) : ts[i].id = m

\* setTimeout(callback, delay) whose handle is kept: the table with the timer
SetTimeout(ts, kind, delay) ==
  Append(ts, [id |-> FreshHandle(ts), kind |-> kind, delay |-> delay])

\* a call that sets no timer
SetTimeoutUnheldDropped(ts, kind, delay) == ts

\* setTimeout(callback, delay) whose handle is dropped (written as handle 0)
SetTimeoutUnheld(ts, kind, delay) ==
  Append(ts, [id |-> 0, kind |-> kind, delay |-> delay])

\* clearTimeout(handle)
ClearTimeout(ts, handle) ==
  SelectSeq(ts, LAMBDA t : t.id = 0 \/ t.id # handle)

\* timer i may be the next to fire: no timer set before it is due before it
\* (a timer set earlier with a delay no longer than i's has the earlier deadline)
CanFire(ts, i) == \A j \in 1..(i - 1) : ts[j].delay > ts[i].delay

RemoveAt(ts, i) ==
  [k \in 1..(Len(ts) - 1) |-> IF k < i THEN ts[k] ELSE ts[k + 1]]

SearchTimers(ts) == SelectSeq(ts, LAMBDA t : t.kind = "search")

LayoutTimers(ts) == SelectSeq(ts, LAMBDA t : t.kind = "layout")

ResizeTimers(ts) == SelectSeq(ts, LAMBDA t : t.kind = "resize")

----------------------------------------------------------------------------
(* State machine *)

data == <<githubProjects, manualTiles, resumeTiles, loads, showSocial,
          sortDefault, gapValue>>

theme == <<currentTheme, storedTheme, prefersDark, rootTheme, themeLog>>

\* absent priorities written out as priority: 0
WithPriorityZero(tiles) ==
  [i \in 1..Len(tiles) |->
     IF tiles[i].priority = <<>>
       THEN [tiles[i] EXCEPT !.priority = <<0>>] ELSE tiles[i]]

\* a page before init() runs: its data files, the outcome of each fetch, the
\* stored theme and the system's colour scheme
InitPage(githubLists, manualLists, resumeLists, n, defaults, gaps, outcomes, socials, stored, schemes) ==
  /\ pc = "loading"
  /\ githubProjects \in githubLists
  /\ manualTiles \in manualLists
  /\ resumeTiles \in resumeLists
  /\ Len(githubProjects) + Len(manualTiles) + Len(resumeTiles) <= n
  /\ sortDefault \in defaults
  /\ gapValue \in gaps
  /\ loads \in outcomes
  /\ showSocial \in socials
  /\ allTiles = <<>>
  /\ grid = <<>>
  /\ twinGrid = <<>>
  /\ activeFilters = [tags |-> <<>>, search |-> <<>>, sort |-> "priority"]
  /\ tagOptions = <<>>
  /\ pills = {}
  /\ inputValue = <<>>
  /\ timers = <<>>
  /\ debounceTimer = 0
  /\ imagesPending = FALSE
  /\ errorShown = FALSE
  /\ uncaughtError = FALSE
  /\ images = <<>>
  /\ currentTheme = "auto"
  /\ storedTheme \in stored
  /\ prefersDark \in schemes
  /\ rootTheme = ""
  /\ themeLog = <<>>
  /\ resizeTimeout = 0
  /\ layoutDue = FALSE

\* the data files of the page, before init() runs: every file loads, no
\* resume tiles, no theme stored
InitData(defaults, gaps, n) ==
  InitPage(ListsOf(GithubPool, n), ListsOf(ManualPool, n), {<<>>}, n,
           defaults, gaps, {AllLoaded}, {FALSE}, {<<>>}, {FALSE})

Init == InitData({"priority"}, {<<>>}, MaxTiles)

\* initTheme()
InitTheme ==
  /\ currentTheme' = SavedOrAuto(storedTheme)
  /\ rootTheme' = ApplyTheme(currentTheme', prefersDark)
  /\ themeLog' = <<currentTheme'>>
  /\ UNCHANGED <<storedTheme, prefersDark>>

\* the catch block of init(): showErrorMessage, with the tiles that
\* renderAllTiles had appended when the error was thrown
InitFails(rendered) ==
  /\ pc' = "failed"
  /\ errorShown' = TRUE
  /\ grid' = rendered
  /\ twinGrid' = rendered
  /\ UNCHANGED <<allTiles, activeFilters, tagOptions, imagesPending, images>>

\* the <img> elements of the container, each complete or not when
\* waitForImagesToLoad looks at it
ImageStates(g) ==
  [{g[i].id : i \in {j \in 1..Len(g) : g[j].hasImage}}
     -> {"pending", "complete"}]

\* main.js init(): initTheme, the data files, populateSocialLinks, mergeData,
\* renderAllTiles, initFilterSystem
AppInit ==
  /\ pc = "loading"
  /\ InitTheme
  /\ LET merged == InitMerge(githubProjects, manualTiles,
                             ResumeResult(loads, resumeTiles))
     IN IF JoinRejects(loads) \/ SocialRejects(loads, showSocial)
          THEN InitFails(<<>>)
        ELSE IF RenderAllTilesRaises(merged)
          THEN InitFails(RenderedBeforeRaise(merged))
        ELSE
          /\ pc' = "ready"
          /\ allTiles' = merged
          /\ grid' = RenderAllTiles(allTiles')
          /\ twinGrid' =
               RenderAllTiles(MergeData(WithPriorityZero(githubProjects),
                                        WithPriorityZero(manualTiles)))
          /\ imagesPending' = TRUE
          /\ images' \in ImageStates(grid')
          /\ activeFilters' = InitialFilters(sortDefault)
          /\ tagOptions' = TagOptions(allTiles')
          /\ UNCHANGED errorShown
  /\ UNCHANGED <<data, pills, inputValue, timers, debounceTimer,
                 uncaughtError, resizeTimeout, layoutDue>>

\* an image whose promise only a load event resolves
ImageResolvedOnLoadOnly(state) == state \in {"complete", "loaded"}

\* the promise waitForImagesToLoad made for an image has resolved: the image
\* was complete, or its load or its error listener has run
ImageResolved(state) == state \in {"complete", "loaded", "failed"}

\* renderAllTiles: waitForImagesToLoad(container).then(calculateMasonryLayout),
\* once the promise of every image has resolved
ImagesLoaded ==
  /\ pc = "ready"
  /\ imagesPending
  /\ \A id \in DOMAIN images : ImageResolved(images[id])
  /\ imagesPending' = FALSE
  /\ grid' = CalculateMasonryLayout(grid, gapValue)
  /\ UNCHANGED <<pc, data, allTiles, twinGrid, activeFilters, tagOptions,
                 pills, inputValue, timers, debounceTimer, errorShown,
                 uncaughtError, images, theme, resizeTimeout,
                 layoutDue>>

\* the load listener waitForImagesToLoad put on an image that was not complete
ImageLoad(id) ==
  /\ pc = "ready"
  /\ id \in DOMAIN images
  /\ images[id] = "pending"
  /\ images' = [images EXCEPT ![id] = "loaded"]
  /\ UNCHANGED <<pc, data, allTiles, grid, twinGrid, activeFilters,
                 tagOptions, pills, inputValue, timers, debounceTimer,
                 imagesPending, errorShown, uncaughtError, theme,
                 resizeTimeout, layoutDue>>

\* the error listener waitForImagesToLoad put on an image that was not complete
ImageError(id) ==
  /\ pc = "ready"
  /\ id \in DOMAIN images
  /\ images[id] = "pending"
  /\ images' = [images EXCEPT ![id] = "failed"]
  /\ UNCHANGED <<pc, data, allTiles, grid, twinGrid, activeFilters,
                 tagOptions, pills, inputValue, timers, debounceTimer,
                 imagesPending, errorShown, uncaughtError, theme,
                 resizeTimeout, layoutDue>>

\* applyFilters() under the filters f: visibility and order of the grid, and
\* the layout timer it sets; when the visibility loop throws, the rest of
\* applyFilters is not run
ApplyFilters(f, ts) ==
  IF ApplyFiltersRaises(grid, f)
    THEN /\ grid' = VisibilityBeforeRaise(grid, f)
         /\ twinGrid' = twinGrid
         /\ timers' = ts
         /\ uncaughtError' = TRUE
         /\ UNCHANGED layoutDue
    ELSE /\ grid' = ApplyFiltersGrid(grid, f)
         /\ twinGrid' = SortIfNeeded(twinGrid, f.sort)
         /\ timers' = SetTimeoutUnheld(ts, "layout", LayoutDelay)
         /\ layoutDue' = TRUE
         /\ UNCHANGED uncaughtError

\* a click listener that adds the value whatever the state of the pill
ToggledTagsAppending(tags, value, isCurrentlyActive) == Append(tags, value)

\* activeFilters.tags after a click on the pill of `value`
ToggledTags(tags, value, isCurrentlyActive) ==
  IF ~isCurrentlyActive
    THEN IF value \in Range(tags) THEN tags ELSE Append(tags, value)
    ELSE SelectSeq(tags, LAMBDA v : v # value)

\* click on the .filter-pill of `value`
PillClick(value) ==
  /\ pc = "ready"
  /\ Len(LayoutTimers(timers)) < MaxLayoutTimers
  /\ LET isCurrentlyActive == value \in pills
         f == [activeFilters EXCEPT
                 !.tags = ToggledTags(@, value, isCurrentlyActive)]
     IN /\ pills' = IF isCurrentlyActive THEN pills \ {value}
                                          ELSE pills \cup {value}
        /\ activeFilters' = f
        /\ ApplyFilters(f, timers)
  /\ UNCHANGED <<pc, data, allTiles, tagOptions, inputValue, debounceTimer,
                 imagesPending, errorShown, images, theme, resizeTimeout>>

\* change of the .filter-select of the sort filter
SelectChange(key) ==
  /\ pc = "ready"
  /\ Len(LayoutTimers(timers)) < MaxLayoutTimers
  /\ LET f == [activeFilters EXCEPT !.sort = key]
     IN /\ activeFilters' = f
        /\ ApplyFilters(f, timers)
  /\ UNCHANGED <<pc, data, allTiles, tagOptions, pills, inputValue,
                 debounceTimer, imagesPending, errorShown, images, theme,
                 resizeTimeout>>

\* the search listener without clearTimeout
DebounceRestartNoClear(ts, handle) == SetTimeout(ts, "search", DEBOUNCE_DELAY)

\* the timer table after the search listener has run: the pending timer is
\* cleared and a new one set
DebounceRestart(ts, handle) ==
  SetTimeout(ClearTimeout(ts, handle), "search", DEBOUNCE_DELAY)

\* input event on .search-input
SearchInput(text) ==
  /\ pc = "ready"
  /\ Len(SearchTimers(ClearTimeout(timers, debounceTimer))) < MaxSearchTimers
  /\ timers' = DebounceRestart(timers, debounceTimer)
  /\ debounceTimer' = timers'[Len(timers')].id
  /\ inputValue' = text
  /\ UNCHANGED <<pc, data, allTiles, grid, twinGrid, activeFilters,
                 tagOptions, pills, imagesPending, errorShown, uncaughtError,
                 images, theme, resizeTimeout, layoutDue>>

\* the search listener's timer callback
SearchTimerFires(i) ==
  /\ i \in 1..Len(timers)
  /\ timers[i].kind = "search"
  /\ CanFire(timers, i)
  /\ Len(LayoutTimers(timers)) < MaxLayoutTimers
  /\ LET f == [activeFilters EXCEPT !.search = ToLowerCase(inputValue)]
     IN /\ activeFilters' = f
        /\ ApplyFilters(f, RemoveAt(timers, i))
  /\ debounceTimer' = IF timers[i].id = debounceTimer THEN 0 ELSE debounceTimer
  /\ UNCHANGED <<pc, data, allTiles, tagOptions, pills, inputValue,
                 imagesPending, errorShown, images, theme, resizeTimeout>>

\* applyFilters' timer callback: calculateMasonryLayout(gridContainer)
LayoutTimerFires(i) ==
  /\ i \in 1..Len(timers)
  /\ timers[i].kind = "layout"
  /\ CanFire(timers, i)
  /\ timers' = RemoveAt(timers, i)
  /\ grid' = CalculateMasonryLayout(grid, gapValue)
  /\ layoutDue' = FALSE
  /\ UNCHANGED <<pc, data, allTiles, twinGrid, activeFilters, tagOptions,
                 pills, inputValue, debounceTimer, imagesPending, errorShown,
                 uncaughtError, images, theme, resizeTimeout>>

\* resetFilters()
ResetFilters ==
  /\ pc = "ready"
  /\ Len(LayoutTimers(timers)) < MaxLayoutTimers
  /\ LET f == [tags |-> <<>>, search |-> <<>>, sort |-> "priority"]
     IN /\ activeFilters' = f
        /\ ApplyFilters(f, timers)
  /\ pills' = {}
  /\ inputValue' = <<>>
  /\ UNCHANGED <<pc, data, allTiles, tagOptions, debounceTimer, imagesPending,
                 errorShown, images, theme, resizeTimeout>>

\* the ResizeObserver callback without clearTimeout
ResizeRestartNoClear(ts, handle) == SetTimeout(ts, "resize", ResizeDelay)

\* the timer table after the ResizeObserver callback has run: the pending
\* timer is cleared and a new one set
ResizeRestart(ts, handle) ==
  SetTimeout(ClearTimeout(ts, handle), "resize", ResizeDelay)

\* the ResizeObserver of setupResponsiveRerender reports a size of the grid
\* container
ResizeNotify ==
  /\ pc = "ready"
  /\ Len(ResizeTimers(ClearTimeout(timers, resizeTimeout))) < MaxResizeTimers
  /\ timers' = ResizeRestart(timers, resizeTimeout)
  /\ resizeTimeout' = timers'[Len(timers')].id
  /\ UNCHANGED <<pc, data, allTiles, grid, twinGrid, activeFilters,
                 tagOptions, pills, inputValue, debounceTimer, imagesPending,
                 errorShown, uncaughtError, images, theme, layoutDue>>

\* the observer's timer callback: calculateMasonryLayout(gridContainer)
ResizeTimerFires(i) ==
  /\ i \in 1..Len(timers)
  /\ timers[i].kind = "resize"
  /\ CanFire(timers, i)
  /\ timers' = RemoveAt(timers, i)
  /\ grid' = CalculateMasonryLayout(grid, gapValue)
  /\ resizeTimeout' = IF timers[i].id = resizeTimeout THEN 0 ELSE resizeTimeout
  /\ UNCHANGED <<pc, data, allTiles, twinGrid, activeFilters, tagOptions,
                 pills, inputValue, debounceTimer, imagesPending, errorShown,
                 uncaughtError, images, theme, layoutDue>>

TimerSlots == 1..(MaxLayoutTimers + MaxSearchTimers + MaxResizeTimers)

Next ==
  \/ AppInit
  \/ ImagesLoaded
  \/ \E value \in Range(tagOptions) : PillClick(value)
  \/ \E key \in SortKeys : SelectChange(key)
  \/ \E text \in InputTexts : SearchInput(text)
  \/ \E i \in TimerSlots : SearchTimerFires(i)
  \/ \E i \in TimerSlots : LayoutTimerFires(i)
  \/ ResetFilters

Spec == Init /\ [][Next]_vars

\* a refresh of the page: the scripts start over, the data files, the
\* local storage and the system's colour scheme stay
Reload ==
  /\ pc # "loading"
  /\ pc' = "loading"
  /\ allTiles' = <<>>
  /\ grid' = <<>>
  /\ twinGrid' = <<>>
  /\ activeFilters' = [tags |-> <<>>, search |-> <<>>, sort |-> "priority"]
  /\ tagOptions' = <<>>
  /\ pills' = {}
  /\ inputValue' = <<>>
  /\ timers' = <<>>
  /\ debounceTimer' = 0
  /\ imagesPending' = FALSE
  /\ errorShown' = FALSE
  /\ uncaughtError' = FALSE
  /\ images' = <<>>
  /\ currentTheme' = "auto"
  /\ rootTheme' = ""
  /\ themeLog' = <<>>
  /\ resizeTimeout' = 0
  /\ layoutDue' = FALSE
  /\ UNCHANGED <<data, storedTheme, prefersDark>>

\* click on #theme-toggle (a click on #mobile-theme-toggle is passed on to it)
ThemeToggleClick ==
  /\ pc # "loading"
  /\ Len(themeLog) <= MaxClicks
  /\ currentTheme' = ToggledTheme(currentTheme)
  /\ storedTheme' = <<currentTheme'>>
  /\ rootTheme' = ApplyTheme(currentTheme', prefersDark)
  /\ themeLog' = Append(themeLog, currentTheme')
  /\ UNCHANGED <<pc, data, allTiles, grid, twinGrid, activeFilters,
                 tagOptions, pills, inputValue, timers, debounceTimer,
                 imagesPending, errorShown, uncaughtError, images,
                 prefersDark, resizeTimeout, layoutDue>>

\* the system's colour scheme changes; the listener of setupSystemThemeListener
\* applies it when the theme is auto
SystemThemeChange ==
  /\ prefersDark' = ~prefersDark
  /\ rootTheme' = IF pc # "loading" /\ currentTheme = "auto"
                    THEN ApplyTheme("auto", prefersDark')
                    ELSE rootTheme
  /\ UNCHANGED <<pc, data, allTiles, grid, twinGrid, activeFilters,
                 tagOptions, pills, inputValue, timers, debounceTimer,
                 imagesPending, errorShown, uncaughtError, images,
                 currentTheme, storedTheme, themeLog, resizeTimeout, layoutDue>>

\* the filter controls and the timers they set, while the images of the page
\* are still loading
NextPills ==
  \/ AppInit
  \/ \E value \in Range(tagOptions) : PillClick(value)
  \/ \E key \in SortKeys : SelectChange(key)
  \/ \E text \in InputTexts : SearchInput(text)
  \/ \E i \in TimerSlots : SearchTimerFires(i)
  \/ \E i \in TimerSlots : LayoutTimerFires(i)
  \/ ResetFilters

\* the pages of at most MaxPillTiles tiles
InitPills == InitData({"priority"}, {<<>>}, MaxPillTiles)

SpecPills == InitPills /\ [][NextPills]_vars

\* the pages of at most MaxDefaultTiles tiles, under either default sort key
InitDefault == InitData(SortDefaults, {<<>>}, MaxDefaultTiles)

SpecDefault == InitDefault /\ [][Next]_vars

\* the page load, the resize observer, the pills and the layout timers
NextResize ==
  \/ AppInit
  \/ ImagesLoaded
  \/ ResizeNotify
  \/ \E i \in TimerSlots : ResizeTimerFires(i)
  \/ \E value \in Range(tagOptions) : PillClick(value)
  \/ \E i \in TimerSlots : LayoutTimerFires(i)

\* the pages of at most MaxResizeTiles tiles
InitResize == InitData({"priority"}, {<<>>}, MaxResizeTiles)

SpecResize == InitResize /\ [][NextResize]_vars

\* the page load and the sort select, with option values of every kind
NextSort ==
  \/ AppInit
  \/ ImagesLoaded
  \/ \E key \in SortKeys \cup UnrecognizedKeys : SelectChange(key)
  \/ \E i \in TimerSlots : LayoutTimerFires(i)

\* the pages of at most MaxSortTiles tiles, under either default sort key
InitSort == InitData(SortDefaults, {<<>>}, MaxSortTiles)

SpecSort == InitSort /\ [][NextSort]_vars

\* the page load, the pills it renders and a refresh
NextTags ==
  \/ AppInit
  \/ ImagesLoaded
  \/ \E value \in Range(tagOptions) : PillClick(value)
  \/ \E i \in TimerSlots : LayoutTimerFires(i)
  \/ Reload

\* the pages of at most MaxTagTiles tiles whose tags repeat values, some of a
\* type without renderer
InitTags ==
  InitPage(ListsOf(GithubPool, MaxTagTiles),
           ListsOf(TagPool \cup UnknownTypePool, MaxTagTiles), {<<>>},
           MaxTagTiles, {"priority"}, {<<>>}, {AllLoaded}, {FALSE}, {<<>>},
           {FALSE})

SpecTags == InitTags /\ [][NextTags]_vars

\* the callers of applyFilters that run it at once, and its layout timer
NextFilter ==
  \/ AppInit
  \/ ImagesLoaded
  \/ \E value \in Range(tagOptions) : PillClick(value)
  \/ \E key \in SortKeys : SelectChange(key)
  \/ \E i \in TimerSlots : LayoutTimerFires(i)
  \/ ResetFilters

\* the pages of at most MaxFilterTiles tiles
InitFilter == InitData({"priority"}, {<<>>}, MaxFilterTiles)

\* a timer that is due is run: the callback of applyFilters' layout timer is
\* called once its 50 ms have passed
SpecFilterLive ==
  /\ InitFilter
  /\ [][NextFilter]_vars
  /\ WF_vars(\E i \in TimerSlots : LayoutTimerFires(i))

\* the pages of at most MaxLayoutTiles tiles, under every --grid-gap value
InitLayout == InitData({"priority"}, GapValues, MaxLayoutTiles)

SpecLayout == InitLayout /\ [][Next]_vars

\* the pages of at most MaxSearchTiles tiles
InitSearch == InitData({"priority"}, {<<>>}, MaxSearchTiles)

SpecSearch == InitSearch /\ [][Next]_vars

\* the page load alone: init(), the first layout pass, a refresh
NextLoad ==
  \/ AppInit
  \/ ImagesLoaded
  \/ Reload

\* the pages of at most MaxLoadTiles tiles, some of an unknown type, with
\* resume tiles, under every outcome of every fetch
InitLoad ==
  InitPage(ListsOf(GithubPool, MaxLoadTiles),
           ListsOf(ManualPool \cup UnknownTypePool, MaxLoadTiles),
           ListsOf(ResumePool, MaxLoadTiles), MaxLoadTiles,
           {"priority"}, {<<>>}, [Sources -> {"ok", "failed"}], BOOLEAN,
           {<<>>}, {FALSE})

SpecLoad == InitLoad /\ [][NextLoad]_vars

\* the pages of at most MaxMalformedTiles tiles, some with a malformed field;
\* every file loads
InitMalformed ==
  InitPage(ListsOf(GithubPool, MaxMalformedTiles),
           ListsOf(ManualPool \cup MalformedPool, MaxMalformedTiles),
           {<<>>}, MaxMalformedTiles, {"priority"}, {<<>>}, {AllLoaded},
           {FALSE}, {<<>>}, {FALSE})

SpecMalformed == InitMalformed /\ [][NextLoad]_vars

\* the page load with its images, and sort changes made meanwhile
NextImages ==
  \/ AppInit
  \/ ImagesLoaded
  \/ \E id \in DOMAIN images : ImageLoad(id)
  \/ \E id \in DOMAIN images : ImageError(id)
  \/ \E key \in SortKeys : SelectChange(key)
  \/ \E i \in TimerSlots : LayoutTimerFires(i)

\* the pages of at most MaxImageTiles tiles, with and without images
InitImages ==
  InitPage({<<>>}, ListsOf(ImagePool, MaxImageTiles), {<<>>}, MaxImageTiles,
           {"priority"}, {<<>>}, {AllLoaded}, {FALSE}, {<<>>}, {FALSE})

\* the then-callback of a resolved promise is run: the microtask queue is
\* emptied after every task
SpecImages == InitImages /\ [][NextImages]_vars /\ WF_vars(ImagesLoaded)

\* the page load, the theme toggle, the system's colour scheme, a refresh
NextTheme ==
  \/ AppInit
  \/ ThemeToggleClick
  \/ SystemThemeChange
  \/ Reload

\* a first visit (nothing stored) to a page of at most MaxThemeTiles tiles,
\* whose site-config.yml loads or not
InitThemePage ==
  InitPage(ListsOf(GithubPool, MaxThemeTiles), {<<>>}, {<<>>}, MaxThemeTiles,
           {"priority"}, {<<>>},
           {AllLoaded, [AllLoaded EXCEPT !["site-config"] = "failed"]},
           {FALSE}, {<<>>}, BOOLEAN)

SpecTheme == InitThemePage /\ [][NextTheme]_vars

----------------------------------------------------------------------------
(* Properties *)

\* the tile record an element was rendered from
RecordOf(el) == CHOOSE t \in Range(allTiles) : t.id = el.id

\* an element the filter shows
Visible(el) == ~el.filtered /\ el.display # "none"

Hidden(el) == el.filtered \/ el.display = "none"

LowerSet(strings) == {ToLowerCase(x) : x \in strings}

\* the merged, lower-cased {tags, topics, language} set of a tile record
MergedTagSet(t) ==
  LowerSet(Range(t.tags) \cup Range(t.topics)
             \cup (IF t.language # <<>> THEN {t.language} ELSE {}))

\* the record passes the tag test under the active tag set
TagTest(t) ==
  activeFilters.tags = <<>>
  \/ MergedTagSet(t) \cap LowerSet(Range(activeFilters.tags)) # {}

\* the record passes the search test under the active search string
SearchTest(t) ==
  activeFilters.search = <<>>
  \/ Includes(ToLowerCase(Join(<<t.title, t.description>> \o t.tags \o t.topics,
                               <<" ">>)),
              activeFilters.search)

PriorityOf(el) == OrElse(RecordOf(el).priority, 0)

Ids(g) == [i \in 1..Len(g) |-> g[i].id]

\* C1: with an empty search string, the visible tiles are exactly the rendered
\* tiles whose merged lower-cased tags, topics and language meet the lower-cased
\* active tag set; with no tag selected every tile is visible.
C1_TagFilter ==
  (pc = "ready" /\ activeFilters.search = <<>>) =>
    \A i \in 1..Len(grid) : Visible(grid[i]) <=> TagTest(RecordOf(grid[i]))

\* a tag is selected, one tile is shown through its language or a tag written
\* in another letter case, another tile is hidden
C1_Witness ==
  /\ pc = "ready"
  /\ activeFilters.search = <<>>
  /\ activeFilters.tags # <<>>
  /\ \E i, j \in 1..Len(grid) :
       /\ Visible(grid[i])
       /\ Hidden(grid[j])
       /\ Range(RecordOf(grid[i]).tags) \cap Range(activeFilters.tags) = {}

\* C2: a tile of any type is visible iff it passes the tag test and its
\* record's title + description + tags + topics contain the search string.
C2_SearchFilter ==
  pc = "ready" =>
    \A i \in 1..Len(grid) :
       Visible(grid[i]) <=>
         (TagTest(RecordOf(grid[i])) /\ SearchTest(RecordOf(grid[i])))

\* C3: under sort key stars the tiles are in non-increasing order of the
\* records' star counts.
C3_StarsOrder ==
  (pc = "ready" /\ activeFilters.sort = "stars") =>
    \A i, j \in 1..Len(grid) :
       i < j => RecordOf(grid[i]).stars >= RecordOf(grid[j]).stars

\* C4: no tile of negative priority is placed before a tile of priority >= 0.
C4_NegativeLast ==
  pc = "ready" =>
    \A i, j \in 1..Len(grid) :
       i < j => ~(PriorityOf(grid[i]) < 0 /\ PriorityOf(grid[j]) >= 0)

\* C5: the merged list is in non-increasing order of priority, and so is the
\* grid whenever the sort key is priority.
C5_PriorityOrder ==
  pc = "ready" =>
    /\ \A i, j \in 1..Len(allTiles) :
          i < j => OrElse(allTiles[i].priority, 0) >= OrElse(allTiles[j].priority, 0)
    /\ activeFilters.sort = "priority" =>
         \A i, j \in 1..Len(grid) :
            i < j => PriorityOf(grid[i]) >= PriorityOf(grid[j])

\* applyFilters has run under sort key priority, and the grid shows a manual
\* tile before a GitHub tile of lower priority
C5_Witness ==
  /\ pc = "ready"
  /\ activeFilters.sort = "priority"
  /\ LayoutTimers(timers) # <<>>
  /\ Len(grid) >= 2
  /\ PriorityOf(grid[1]) > PriorityOf(grid[2])
  /\ RecordOf(grid[1]) \in Range(manualTiles)
  /\ RecordOf(grid[2]) \in Range(githubProjects)

\* C6 as stated: in every state a hidden tile has span 0.
C6_HiddenSpanAlways ==
  pc = "ready" =>
    \A i \in 1..Len(grid) : Hidden(grid[i]) => grid[i].gridRowEnd = <<0>>

\* C6 as amended: a hidden tile has span 0 in every state in which no layout
\* timer of applyFilters is pending.
C6_HiddenSpanAfterLayout ==
  (pc = "ready" /\ LayoutTimers(timers) = <<>>) =>
    \A i \in 1..Len(grid) : Hidden(grid[i]) => grid[i].gridRowEnd = <<0>>

\* a tile is hidden and the layout pass after the filter change has run
C6_Witness ==
  /\ pc = "ready"
  /\ LayoutTimers(timers) = <<>>
  /\ \E i \in 1..Len(grid) : Hidden(grid[i]) /\ grid[i].gridRowEnd = <<0>>

\* the gap the page configures: --grid-gap when it parses, DefaultGap otherwise
ConfiguredGap == IF gapValue = <<>> THEN DefaultGap ELSE gapValue[1]

\* no layout pass is outstanding
LayoutSettled == ~imagesPending /\ LayoutTimers(timers) = <<>>

\* C7: after a layout pass every visible tile has the span
\* ceil((height + gap) / row quantum), clamped to at least 1.
C7_VisibleSpan ==
  (pc = "ready" /\ LayoutSettled) =>
    \A i \in 1..Len(grid) :
       Visible(grid[i]) =>
         LET span == RowSpan(grid[i].height, ConfiguredGap)
         IN /\ grid[i].gridRowEnd = <<IF span < 1 THEN 1 ELSE span>>
            /\ grid[i].gridRowEnd[1] >= 1

\* the elements renderAllTiles appended
Rendered == RenderAllTiles(allTiles)

\* C8: the grid always holds exactly the rendered tiles, each once, and every
\* tile is visible whenever the tag set and the search string are both empty.
C8_TilesKept ==
  pc = "ready" =>
    /\ Len(grid) = Len(Rendered)
    /\ Range(Ids(grid)) = Range(Ids(Rendered))
    /\ (activeFilters.tags = <<>> /\ activeFilters.search = <<>>) =>
         \A i \in 1..Len(grid) : Visible(grid[i])

\* the filters are empty again and a tile that a layout pass saw hidden is
\* visible
C8_Witness ==
  /\ pc = "ready"
  /\ activeFilters.tags = <<>>
  /\ activeFilters.search = <<>>
  /\ \E i \in 1..Len(grid) : Visible(grid[i]) /\ grid[i].gridRowEnd = <<0>>

\* C9: at most one search timer is pending; the timer that fires is the one of
\* the latest input event, it sets the search state to the lower-cased input
\* text and leaves no search timer pending; a pending search timer goes away
\* only by firing or by being replaced at the next input event.
C9_Debounce ==
  /\ [](Len(SearchTimers(timers)) <= 1)
  /\ [][\A i \in TimerSlots :
          SearchTimerFires(i) =>
            /\ timers[i].id = debounceTimer
            /\ activeFilters'.search = ToLowerCase(inputValue)
            /\ SearchTimers(timers') = <<>>]_vars
  /\ [][(\E text \in InputTexts : SearchInput(text)) =>
          /\ Len(SearchTimers(timers')) = 1
          /\ activeFilters' = activeFilters /\ grid' = grid]_vars
  /\ [][(SearchTimers(timers) # <<>> /\ SearchTimers(timers') = <<>>) =>
          \E i \in TimerSlots : SearchTimerFires(i)]_vars

\* a search has fired: the search state is the lower-cased text of the box
C9_Witness ==
  /\ pc = "ready"
  /\ activeFilters.search # <<>>
  /\ activeFilters.search = ToLowerCase(inputValue)
  /\ activeFilters.search # inputValue
  /\ SearchTimers(timers) = <<>>

\* C10: the tiles are in the order of the reference run, in which every absent
\* priority is written as priority: 0 - after mergeData and after every sort.
C10_AbsentPriorityIsZero ==
  pc = "ready" =>
    /\ Ids(grid) = Ids(twinGrid)
    /\ Ids(allTiles) = Ids(MergeData(WithPriorityZero(githubProjects),
                                     WithPriorityZero(manualTiles)))

\* a sort on priority has run over a tile without priority and a tile of
\* priority 0, and the former is placed first
C10_Witness ==
  /\ pc = "ready"
  /\ activeFilters.sort = "recent"
  /\ \E i, j \in 1..Len(grid) :
       /\ i < j
       /\ RecordOf(grid[i]).priority = <<>>
       /\ RecordOf(grid[j]).priority = <<0>>

\* the place of the tile `id` in the grid g
PosOf(g, id) == CHOOSE k \in 1..Len(g) : g[k].id = id

\* C11: a step that leaves the sort key at stars (every applyFilters under that
\* key runs sortTiles('stars')) keeps the relative order any two tiles with
\* equal star counts had before the step.
C11_StarsStable ==
  [][(pc = "ready" /\ activeFilters'.sort = "stars") =>
       \A i, j \in 1..Len(grid) :
          (i < j /\ RecordOf(grid[i]).stars = RecordOf(grid[j]).stars) =>
            PosOf(grid', grid[i].id) < PosOf(grid', grid[j].id)]_vars

\* sortTiles('stars') has run over two tiles with equal star counts that the
\* sort before it had put in another order than that of their priorities
C11_Witness ==
  /\ pc = "ready"
  /\ activeFilters.sort = "stars"
  /\ LayoutTimers(timers) # <<>>
  /\ \E i, j \in 1..Len(grid) :
       /\ i < j
       /\ RecordOf(grid[i]).stars = RecordOf(grid[j]).stars
       /\ PriorityOf(grid[i]) < PriorityOf(grid[j])

\* the types of section 3 of the specification, each with a renderer
KnownTypes == {"project", "link", "content", "widget", "profile"}

\* the ids of the records of a list whose type is known
KnownIds(tiles) ==
  {tiles[i].id : i \in {j \in 1..Len(tiles) : tiles[j].type \in KnownTypes}}

RequiredLoaded == \A s \in RequiredSources : loads[s] = "ok"

\* C12: when the resume file fails to load and the four required files load,
\* no error banner is shown and every GitHub and manual tile is rendered.
C12_ResumeFailure ==
  (pc # "loading" /\ loads["resume-tiles"] = "failed" /\ RequiredLoaded) =>
    /\ ~errorShown
    /\ Range(Ids(grid)) = KnownIds(githubProjects) \cup KnownIds(manualTiles)

\* C13: a failed required file shows the banner and leaves the grid empty, and
\* nothing else does: when the required files load, whatever other fetch
\* fails, no banner is shown and the tiles are rendered.
C13_OnlyRequiredFailures ==
  pc # "loading" =>
    /\ ~RequiredLoaded => (errorShown /\ grid = <<>>)
    /\ RequiredLoaded =>
         /\ ~errorShown
         /\ KnownIds(githubProjects) \cup KnownIds(manualTiles)
              \subseteq Range(Ids(grid))

\* C14: renderAllTiles appends an element for every record of a known type,
\* in list order, whatever records of unknown type the list holds, and init()
\* runs to its end.
C14_UnknownTypeSkipped ==
  [][(AppInit /\ ~JoinRejects(loads) /\ ~SocialRejects(loads, showSocial)) =>
       /\ pc' = "ready"
       /\ ~errorShown'
       /\ Ids(grid') =
            Ids(SelectSeq(allTiles', LAMBDA t : t.type \in KnownTypes))]_vars

\* a page is ready whose list holds a tile of unknown type before a tile of
\* known type, and the grid holds the latter
C14_Witness ==
  /\ pc = "ready"
  /\ ~errorShown
  /\ Len(allTiles) >= 2
  /\ allTiles[1].type \notin KnownTypes
  /\ allTiles[2].type \in KnownTypes
  /\ Ids(grid) = <<allTiles[2].id>>

\* C20: when every file loads, every resume tile is in the merged list and in
\* the grid.
C20_ResumeRendered ==
  (pc = "ready" /\ loads["resume-tiles"] = "ok") =>
    \A i \in 1..Len(resumeTiles) :
       /\ resumeTiles[i].id \in Range(Ids(allTiles))
       /\ resumeTiles[i].id \in Range(Ids(grid))

\* the records of the page's data files
PageRecords == Range(githubProjects) \cup Range(manualTiles)

\* the record of the data files an element was rendered from
SourceOf(el) == CHOOSE t \in PageRecords : t.id = el.id

\* C15: a page with a malformed tile loads without banner and renders every
\* tile; the filter system reads '' as the title of a tile without title and
\* 0 as the priority of a tile whose priority is not a number.
C15_MalformedFieldDefaults ==
  pc # "loading" =>
    /\ pc = "ready"
    /\ ~errorShown
    /\ Range(Ids(grid)) = {t.id : t \in PageRecords}
    /\ \A i \in 1..Len(grid) :
         LET seen == GetTileDataFromElement(grid[i])
             t == SourceOf(grid[i])
         IN /\ t.title = NoTitle => seen.title = <<>>
            /\ IsText(t.priority) => seen.priority = <<0>>

\* no tile carries any of the selected tags
NoTileCarriesSelection ==
  /\ activeFilters.tags # <<>>
  /\ \A t \in Range(allTiles) :
       MergedTagSet(t) \cap LowerSet(Range(activeFilters.tags)) = {}

\* C16: no listener of the filter controls ever throws, whatever tag is
\* toggled, text searched or sort key chosen; and when no tile carries any
\* selected tag, every tile is hidden.
C16_FilterNeverFails ==
  /\ ~uncaughtError
  /\ (pc = "ready" /\ NoTileCarriesSelection) =>
       \A i \in 1..Len(grid) : Hidden(grid[i])

\* a tag no tile carries is selected, a search text and a sort key are set,
\* applyFilters has run to its end and the tiles are all hidden
C16_Witness ==
  /\ pc = "ready"
  /\ ~uncaughtError
  /\ NoTileCarriesSelection
  /\ activeFilters.search # <<>>
  /\ activeFilters.sort = "alphabetical"
  /\ LayoutTimers(timers) # <<>>
  /\ grid # <<>>
  /\ \A i \in 1..Len(grid) : Hidden(grid[i])

\* the layout pass of the initial render has run
FirstLayoutRan == pc = "ready" /\ ~imagesPending

\* every image of the container has loaded or failed (or was complete)
ImagesSettled == \A id \in DOMAIN images : images[id] # "pending"

\* C17: the layout pass of the initial render runs only when no image is still
\* pending, and it does run once every image has loaded or failed.
C17_LayoutAfterImages ==
  /\ [](FirstLayoutRan => ImagesSettled)
  /\ ((pc = "ready" /\ ImagesSettled) ~> FirstLayoutRan)

\* the first layout pass has run on a page one of whose images failed and
\* another loaded
C17_Witness ==
  /\ FirstLayoutRan
  /\ \E id \in DOMAIN images : images[id] = "failed"
  /\ \E id \in DOMAIN images : images[id] = "loaded"
  /\ \A i \in 1..Len(grid) : grid[i].gridRowEnd # <<>>

\* the cycle light -> dark -> auto -> light
CycleNext == [light |-> "dark", dark |-> "auto", auto |-> "light"]

\* C18: every click on the theme toggle moves the theme one step along the
\* cycle light -> dark -> auto -> light, and three clicks in a row come back
\* to the theme they started from.
C18_ThemeCycle ==
  /\ currentTheme \in THEMES
  /\ \A k \in 1..(Len(themeLog) - 1) : themeLog[k + 1] = CycleNext[themeLog[k]]
  /\ \A k \in 1..(Len(themeLog) - 3) : themeLog[k + 3] = themeLog[k]

\* three clicks have been made on a page that started from the stored theme
\* dark, and the theme is dark again
C18_Witness ==
  /\ Len(themeLog) = 4
  /\ themeLog[1] = "dark"
  /\ themeLog[2] = "auto"
  /\ currentTheme = "dark"

\* C19: once the toggle has been clicked the stored value is the selected
\* theme; a refresh keeps the stored value; and initTheme selects the stored
\* theme, auto when nothing is stored - so that after a page load the selected
\* theme is always the stored one.
C19_ThemePersists ==
  /\ []((pc # "loading" /\ Len(themeLog) >= 2) =>
          storedTheme = <<currentTheme>>)
  /\ [](pc # "loading" =>
          currentTheme = (IF storedTheme = <<>> THEN "auto"
                                                ELSE storedTheme[1]))
  /\ [][Reload => storedTheme' = storedTheme]_vars
  /\ [][AppInit =>
          currentTheme' = (IF storedTheme = <<>> THEN "auto"
                                                 ELSE storedTheme[1])]_vars

\* the page has been loaded again after the theme was toggled to dark, and
\* dark is selected before any click
C19_Witness ==
  /\ pc # "loading"
  /\ themeLog = <<"dark">>
  /\ storedTheme = <<"dark">>
  /\ currentTheme = "dark"
  /\ rootTheme = "dark"

\* the tag set after a click on the pill of v, and after a second one
TagsAfterClick(tags, active, v) == ToggledTags(tags, v, v \in active)

PillsAfterClick(active, v) ==
  IF v \in active THEN active \ {v} ELSE active \cup {v}

\* C21: the active tag set has no duplicates and is the set of the values of
\* the active pills; a click on the pill of v flips the membership of v alone
\* and leaves the search string and the sort key as they are; two clicks on
\* the same pill give the set back.
C21_PillToggle ==
  /\ [](pc = "ready" =>
          /\ \A i, j \in 1..Len(activeFilters.tags) :
                i # j => activeFilters.tags[i] # activeFilters.tags[j]
          /\ Range(activeFilters.tags) = pills
          /\ \A v \in Range(tagOptions) :
                Range(TagsAfterClick(TagsAfterClick(activeFilters.tags, pills, v),
                                     PillsAfterClick(pills, v), v))
                  = Range(activeFilters.tags))
  /\ [][\A v \in Range(tagOptions) :
          PillClick(v) =>
            /\ Range(activeFilters'.tags) =
                 (IF v \in Range(activeFilters.tags)
                    THEN Range(activeFilters.tags) \ {v}
                    ELSE Range(activeFilters.tags) \cup {v})
            /\ activeFilters'.search = activeFilters.search
            /\ activeFilters'.sort = activeFilters.sort]_vars
  /\ [][ResetFilters => (activeFilters'.tags = <<>> /\ pills' = {})]_vars

\* two pills are active, clicked in the order opposite to that of the pills,
\* under a search string and a sort key set before
C21_Witness ==
  /\ pc = "ready"
  /\ Len(tagOptions) >= 2
  /\ activeFilters.tags = <<tagOptions[2], tagOptions[1]>>
  /\ pills = {tagOptions[1], tagOptions[2]}
  /\ activeFilters.search # <<>>
  /\ activeFilters.sort = "alphabetical"

\* C22: every applyFilters call is followed by a run of its layout timer's
\* callback; when the callback runs the visibility update and the re-sort of
\* the call are done, and it leaves every hidden tile with span 0 and every
\* visible tile with the span of its height.
C22_LayoutFollows ==
  /\ (layoutDue ~> ~layoutDue)
  /\ [](layoutDue => LayoutTimers(timers) # <<>>)
  /\ [][\A i \in TimerSlots :
          LayoutTimerFires(i) =>
            /\ ApplyFiltersGrid(grid, activeFilters) = grid
            /\ Ids(grid') = Ids(grid)
            /\ \A k \in 1..Len(grid') :
                 /\ Hidden(grid'[k]) <=> Hidden(grid[k])
                 /\ Hidden(grid'[k]) => grid'[k].gridRowEnd = <<0>>
                 /\ Visible(grid'[k]) =>
                      grid'[k].gridRowEnd =
                        <<RowSpan(grid'[k].height,
                                  OrElse(gapValue, DefaultGap))>>]_vars

\* the layout pass after a filter change under another sort key has run: one
\* tile is hidden with span 0, another visible with the span of its height
C22_Witness ==
  /\ pc = "ready"
  /\ ~layoutDue
  /\ LayoutTimers(timers) = <<>>
  /\ activeFilters.sort = "alphabetical"
  /\ \E i, j \in 1..Len(grid) :
       /\ Hidden(grid[i]) /\ grid[i].gridRowEnd = <<0>>
       /\ Visible(grid[j])
       /\ grid[j].gridRowEnd = <<RowSpan(grid[j].height, DefaultGap)>>

\* the distinct lower-cased tag, topic and language values of the corpus
CorpusValues == UNION {MergedTagSet(t) : t \in Range(allTiles)}

\* the number of tiles that carry the value v in any letter case
Carriers(v) ==
  Cardinality({i \in 1..Len(allTiles) : v \in MergedTagSet(allTiles[i])})

\* the declared priority tags, lower-cased
PriorityValues == LowerSet(Range(PriorityTagOptions))

\* the options after the declared ones
DiscoveredOptions ==
  SubSeq(tagOptions, Len(PriorityTagOptions) + 1, Len(tagOptions))

\* C23: the tag options are the declared priority tags in their order, then
\* every corpus value that is not a priority tag in any letter case, each
\* once, in non-increasing order of the number of tiles carrying it.
C23_TagOptions ==
  pc = "ready" =>
    /\ SubSeq(tagOptions, 1, Len(PriorityTagOptions)) = PriorityTagOptions
    /\ Range(DiscoveredOptions) = CorpusValues \ PriorityValues
    /\ \A i, j \in 1..Len(DiscoveredOptions) :
         i < j =>
           /\ DiscoveredOptions[i] # DiscoveredOptions[j]
           /\ Carriers(DiscoveredOptions[i]) >= Carriers(DiscoveredOptions[j])
    /\ \A v \in CorpusValues : v \in LowerSet(Range(tagOptions))

\* the corpus holds a priority tag in another letter case and two further
\* values; the one met first is carried by fewer tiles and comes last
C23_Witness ==
  /\ pc = "ready"
  /\ Len(DiscoveredOptions) = 2
  /\ CorpusValues \cap PriorityValues # {}
  /\ Carriers(DiscoveredOptions[1]) > Carriers(DiscoveredOptions[2])
  /\ LET met == GetAllUniqueTags(allTiles)
     IN \E a, b \in 1..Len(met) :
          a < b /\ met[a] = DiscoveredOptions[2] /\ met[b] = DiscoveredOptions[1]

\* the times the record t writes a value that is v in lower case
Occurrences(t, v) ==
  Cardinality({i \in 1..Len(t.tags) : ToLowerCase(t.tags[i]) = v})
  + Cardinality({i \in 1..Len(t.topics) : ToLowerCase(t.topics[i]) = v})
  + (IF t.language # <<>> /\ ToLowerCase(t.language) = v THEN 1 ELSE 0)

\* C24: the frequency of a value is the number of tiles carrying it, however
\* often and in whatever letter case a tile writes it; 0 for a value no tile
\* carries.
C24_FrequencyPerTile ==
  pc = "ready" =>
    \A v \in CorpusValues \cup PriorityValues \cup {<<"n","o">>} :
       /\ TagFrequency(allTiles, v) = Carriers(v)
       /\ TagFrequency(allTiles, v) =
            Cardinality({i \in 1..Len(allTiles) :
                           Occurrences(allTiles[i], v) >= 1})

\* a tile writes a value three times or more, in more than one letter case,
\* and the value is counted once for it
C24_Witness ==
  /\ pc = "ready"
  /\ \E i \in 1..Len(allTiles) : \E v \in CorpusValues :
       /\ Occurrences(allTiles[i], v) >= 3
       /\ v \notin Range(allTiles[i].tags)
            \/ \E k \in 1..Len(allTiles[i].tags) :
                  allTiles[i].tags[k] # v /\ ToLowerCase(allTiles[i].tags[k]) = v
       /\ TagFrequency(allTiles, v) = 1

C26_ResizeDebounce ==
  /\ [](Len(ResizeTimers(timers)) <= 1)
  /\ [][ResizeNotify =>
          /\ Len(ResizeTimers(timers')) = 1
          /\ timers'[Len(timers')].id = resizeTimeout'
          /\ grid' = grid]_vars
  /\ [][\A i \in TimerSlots :
          ResizeTimerFires(i) =>
            /\ timers[i].id = resizeTimeout
            /\ grid' = CalculateMasonryLayout(grid, gapValue)
            /\ ResizeTimers(timers') = <<>>]_vars
  /\ [][(ResizeTimers(timers) # <<>> /\ ResizeTimers(timers') = <<>>) =>
          \E i \in TimerSlots : ResizeTimerFires(i)]_vars

\* the resize timer has fired before the first layout pass and before the
\* layout timer of a filter change: the hidden tile has span 0 from it
C26_Witness ==
  /\ pc = "ready"
  /\ imagesPending
  /\ LayoutTimers(timers) # <<>>
  /\ ResizeTimers(timers) = <<>>
  /\ resizeTimeout = 0
  /\ \E i \in 1..Len(grid) : Hidden(grid[i]) /\ grid[i].gridRowEnd = <<0>>

\* the grid g is in an order the sort key allows: by stars or by priority
\* from high to low, by title from first to last; priority for any other key
OrderedFor(g, key) ==
  \A i, j \in 1..Len(g) :
     i < j =>
       CASE key = "stars" -> RecordOf(g[i]).stars >= RecordOf(g[j]).stars
         [] key = "alphabetical" ->
              LocaleCompare(RecordOf(g[i]).title, RecordOf(g[j]).title) <= 0
         [] OTHER -> PriorityOf(g[i]) >= PriorityOf(g[j])

\* C27: from the end of initialization on, the tiles are in an order the
\* active sort key allows - directly after initialization too, where the
\* active key is the declared default.
C27_OrderFollowsKey ==
  pc = "ready" => OrderedFor(grid, activeFilters.sort)

\* the order of the tiles in the run that selects `key` right after the page
\* has loaded
KeyOrder(key) == Ids(SortTiles(Rendered, key))

\* C28: the order of the tiles is that of the run that selects the active
\* sort key right after the load, whatever keys and filters were selected on
\* the way.
C28_OrderFromKeyOnly ==
  pc = "ready" => Ids(grid) = KeyOrder(activeFilters.sort)

\* C29: resetFilters leaves the state initFilterSystem established: no tag,
\* no search string, the declared default as sort key, every tile visible, no
\* pill active and an empty search box.
C29_ResetRestoresInit ==
  [][ResetFilters =>
       /\ activeFilters' = InitialFilters(sortDefault)
       /\ pills' = {}
       /\ inputValue' = <<>>
       /\ \A i \in 1..Len(grid') : Visible(grid'[i])]_vars

\* the count renderMultiSelectFilter writes on the pill of `value`
PillCount(value) == TagFrequency(allTiles, ToLowerCase(value))

\* C30: with one tag selected and no search string, the number of tiles
\* shown is the count written on the pill of that tag.
C30_CountIsShown ==
  (/\ pc = "ready"
   /\ activeFilters.search = <<>>
   /\ Len(activeFilters.tags) = 1
   /\ PillCount(activeFilters.tags[1]) > 0) =>
    Cardinality({i \in 1..Len(grid) : Visible(grid[i])})
      = PillCount(activeFilters.tags[1])

====
